---- MODULE Spec2Model ----
(***************************************************************************)
(* Model of packages/insomnia-app/app/common/misc.js: the multi-term fuzzy *)
(* matcher (fuzzyMatchAll) and the keyed debounce (keyedDebounce,          *)
(* debounce).                                                              *)
(*                                                                         *)
(* Strings are sequences of one-character strings.  JavaScript's null and  *)
(* undefined are the record Null.                                          *)
(***************************************************************************)
EXTENDS Integers, Sequences, FiniteSets, TLC

VARIABLES
    \* ---- fuzzyMatchAll: one invocation --------------------------------
    searchString,   \* argument searchString
    allText,        \* argument allText
    options,        \* argument options: [splitSpace, loose]
    fz,             \* what fuzzysort.single answers for each (term, text)
    fpc,            \* "start" before the invocation, "done" after it
    ret,            \* the value fuzzyMatchAll returned
    calls,          \* the invocations of fuzzysort.single it made, in order
    \* ---- keyedDebounce / debounce: one instance ------------------------
    kind,           \* "keyedDebounce" or "debounce": how it was constructed
    millis,         \* argument millis
    results,        \* closure variable results (the buffer)
    timeout,        \* closure variable timeout (last timer handle)
    timers,         \* the host's live timers: set of [id, due]
    nextId,         \* the host's next timer handle
    now,            \* the host's clock
    dpc,            \* "idle", or "callback" while callback(results) runs
    invocations,    \* the invocations of the external callback, in order
    history         \* the calls of the debounced function, in order

fvars == <<searchString, allText, options, fz, fpc, ret, calls>>
dvars == <<kind, millis, results, timeout, timers, nextId, now, dpc,
           invocations, history>>
vars == <<fvars, dvars>>

Null == [isNull |-> TRUE]

\* ------------------------------------------------------------------------
\* Bounds and input pools
\* ------------------------------------------------------------------------
MaxTexts == 2

QueryPool ==
    { <<>>, <<" ">>, <<"\t">>, <<"a">>, <<"a", "b">>, <<"a", " ", "b">>,
      <<" ", "a", " ">> }

TextPool == { <<>>, <<" ">>, <<"a", "b">>, <<"b", "a">> }

\* Scores fuzzysort.single may report, around the cutoff of line 285.
Threshold == -8000

ScorePool == { Threshold - 1, Threshold, -1 }

\* ------------------------------------------------------------------------
\* String helpers of the JavaScript runtime
\* ------------------------------------------------------------------------
WhiteSpace == { " ", "\t" }

RECURSIVE TrimStart(_)
TrimStart(s) ==
    IF s # <<>> /\ Head(s) \in WhiteSpace THEN TrimStart(Tail(s)) ELSE s

RECURSIVE TrimEnd(_)
TrimEnd(s) ==
    IF s # <<>> /\ s[Len(s)] \in WhiteSpace
    THEN TrimEnd(SubSeq(s, 1, Len(s) - 1))
    ELSE s

\* String.prototype.trim
Trim(s) == TrimEnd(TrimStart(s))

\* truthiness of a string: the empty string is falsy
Truthy(s) == s # <<>>

\* String.prototype.split(' '): the pieces between single spaces, empty
\* pieces included
RECURSIVE SplitFrom(_, _, _)
SplitFrom(s, i, piece) ==
    IF i > Len(s) THEN <<piece>>
    ELSE IF s[i] = " " THEN <<piece>> \o SplitFrom(s, i + 1, <<>>)
    ELSE SplitFrom(s, i + 1, Append(piece, s[i]))

Split(s) == SplitFrom(s, 1, <<>>)

\* Array.prototype.join(' ')
RECURSIVE Join(_)
Join(ts) ==
    IF ts = <<>> THEN <<>>
    ELSE IF Len(ts) = 1 THEN ts[1]
    ELSE ts[1] \o <<" ">> \o Join(Tail(ts))

\* ------------------------------------------------------------------------
\* fuzzyMatchAll
\* ------------------------------------------------------------------------

\* GuardNoQuery without the trim: only the empty query is turned away
GuardEmptyOnly(s) == ~Truthy(s)

\* line 266: !searchString || !searchString.trim()
GuardNoQuery(s) == ~Truthy(s) \/ ~Truthy(Trim(s))

\* line 270
Words(s) == SelectSeq(Split(s), LAMBDA w : Truthy(Trim(w)))

\* line 271
Terms(s, opts) == IF opts.splitSpace THEN Append(Words(s), s) ELSE <<s>>

\* line 278: allText.filter(t => !t || t.trim())
KeepText(t) == ~Truthy(t) \/ Truthy(Trim(t))

FilterTexts(ts) == SelectSeq(ts, KeepText)

\* line 279: fuzzysort.single(term, text).  The library is not part of the
\* repository: its answer for a non-empty target is the oracle's; for an
\* empty target it answers null.
fuzzysortSingle(oracle, term, text) ==
    IF ~Truthy(text) \/ oracle[<<term, text>>] = Null THEN Null
    ELSE [score |-> oracle[<<term, text>>].score,
          indexes |-> [i \in 1..Len(term) |-> i - 1]]

\* IsGarbage without the cutoff: every match counts
NeverGarbage(result) == FALSE

\* line 285
IsGarbage(result) == result.score < Threshold

\* UpdateMaxScore without the comparison: the last score wins
LastScoreWins(maxScore, result) == [score |-> result.score]

\* lines 289-291
UpdateMaxScore(maxScore, result) ==
    IF maxScore = Null \/ result.score > maxScore.score
    THEN [score |-> result.score]
    ELSE maxScore

\* lines 279-294: the body of the inner loop, on the loop's variables
\* acc = [maxScore, indexes, matchedTerm, calls]
MatchOne(oracle, term, text, acc) ==
    LET result == fuzzysortSingle(oracle, term, text)
        called == [acc EXCEPT !.calls = Append(@, [term |-> term, text |-> text])]
    IN  IF result = Null THEN called
        ELSE IF IsGarbage(result) THEN called
        ELSE [called EXCEPT !.maxScore = UpdateMaxScore(@, result),
                            !.indexes = @ \o result.indexes,
                            !.matchedTerm = TRUE]

\* line 278: the inner loop over the filtered texts
RECURSIVE InnerLoop(_, _, _, _)
InnerLoop(oracle, term, texts, acc) ==
    IF texts = <<>> THEN acc
    ELSE InnerLoop(oracle, term, Tail(texts),
                   MatchOne(oracle, term, Head(texts), acc))

\* lines 277-299: one iteration of the outer loop
MatchTerm(oracle, term, ts, st) ==
    LET acc == InnerLoop(oracle, term, FilterTexts(ts),
                  [maxScore |-> st.maxScore, indexes |-> st.indexes,
                   matchedTerm |-> FALSE, calls |-> st.calls])
    IN  [maxScore |-> acc.maxScore, indexes |-> acc.indexes,
         calls |-> acc.calls,
         termsMatched |-> IF acc.matchedTerm THEN st.termsMatched + 1
                          ELSE st.termsMatched]

\* line 276: the outer loop over the terms
RECURSIVE OuterLoop(_, _, _, _)
OuterLoop(oracle, terms, ts, st) ==
    IF terms = <<>> THEN st
    ELSE OuterLoop(oracle, Tail(terms), ts,
                   MatchTerm(oracle, Head(terms), ts, st))

\* line 303
TooFewTerms(opts, termsMatched, nTerms) ==
    ~opts.loose /\ termsMatched < nTerms - 1

\* lines 261-316: [ret, calls] of fuzzyMatchAll(s, ts, opts)
FuzzyMatchAllRun(oracle, s, ts, opts) ==
    IF GuardNoQuery(s) THEN [ret |-> Null, calls |-> <<>>]
    ELSE
        LET terms == Terms(s, opts)
            st == OuterLoop(oracle, terms, ts,
                      [maxScore |-> Null, indexes |-> <<>>,
                       termsMatched |-> 0, calls |-> <<>>])
        IN  IF TooFewTerms(opts, st.termsMatched, Len(terms))
            THEN [ret |-> Null, calls |-> st.calls]
            ELSE IF st.maxScore = Null
            THEN [ret |-> Null, calls |-> st.calls]
            ELSE [ret |-> [score |-> st.maxScore.score,
                           indexes |-> st.indexes,
                           target |-> Join(ts)],
                  calls |-> st.calls]

\* The (term, text) pairs on which the oracle is consulted.
RECURSIVE SeqRange(_)
SeqRange(q) == IF q = <<>> THEN {} ELSE {Head(q)} \cup SeqRange(Tail(q))

OracleDomain(s, ts, opts) ==
    IF GuardNoQuery(s) THEN {}
    ELSE { <<term, text>> : term \in SeqRange(Terms(s, opts)),
                            text \in { t \in SeqRange(FilterTexts(ts)) : Truthy(t) } }

\* What fuzzysort.single may answer: null, or a match with a score (and one
\* index per character of the term).
Answers == {Null} \cup { [score |-> sc] : sc \in ScorePool }

TextLists == UNION { [1..n -> TextPool] : n \in 0..MaxTexts }

OptionsPool == [splitSpace : BOOLEAN, loose : BOOLEAN]

FuzzyInit ==
    /\ searchString \in QueryPool
    /\ allText \in TextLists
    /\ options \in OptionsPool
    /\ fz \in [OracleDomain(searchString, allText, options) -> Answers]
    /\ fpc = "start"
    /\ ret = Null
    /\ calls = <<>>

FuzzyMatchAll ==
    /\ fpc = "start"
    /\ LET run == FuzzyMatchAllRun(fz, searchString, allText, options)
       IN  /\ ret' = run.ret
           /\ calls' = run.calls
    /\ fpc' = "done"
    /\ UNCHANGED <<searchString, allText, options, fz>>

FuzzyOff ==
    /\ searchString = <<>>
    /\ allText = <<>>
    /\ options = [splitSpace |-> FALSE, loose |-> FALSE]
    /\ fz = <<>>
    /\ fpc = "off"
    /\ ret = Null
    /\ calls = <<>>

\* ------------------------------------------------------------------------
\* keyedDebounce and debounce
\* ------------------------------------------------------------------------
MaxCalls == 3
MaxTime == 4
MaxMillis == 2

KeyPool == { "k1", "k2" }
ArgsPool == { <<1>>, <<2>> }

\* line 138 and line 150: {}
EmptyObject == <<>>

\* line 141: results[key] = args
SetKey(obj, key, args) ==
    [k \in (DOMAIN obj) \cup {key} |-> IF k = key THEN args ELSE obj[k]]

\* ClearTimeout that cancels nothing
NoClearTimeout(live, handle) == live

\* line 143: clearTimeout(timeout)
ClearTimeout(live, handle) == { t \in live : t.id # handle }

\* line 144: setTimeout(..., millis)
SetTimeout(live, handle, due) == live \cup { [id |-> handle, due |-> due] }

\* line 145: !Object.keys(results).length
NothingBuffered(obj) == DOMAIN obj = {}

\* ResetResults that keeps the buffer
KeepResults(obj) == obj

\* line 150: results = {}
ResetResults(obj) == EmptyObject

\* lines 157-159: the key debounce binds, and what its wrapper hands to the
\* external callback; keyedDebounce hands over the buffer itself (line 149)
BoundKey == "__key__"

CallbackArgument(k, obj) == IF k = "debounce" THEN obj[BoundKey] ELSE obj

DebounceInit ==
    /\ kind \in { "keyedDebounce", "debounce" }
    /\ millis \in 1..MaxMillis
    /\ results = EmptyObject
    /\ timeout = 0
    /\ timers = {}
    /\ nextId = 1
    /\ now = 0
    /\ dpc = "idle"
    /\ invocations = <<>>
    /\ history = <<>>

DebounceOff ==
    /\ kind = "keyedDebounce"
    /\ millis = 1
    /\ results = EmptyObject
    /\ timeout = 0
    /\ timers = {}
    /\ nextId = 1
    /\ now = 0
    /\ dpc = "off"
    /\ invocations = <<>>
    /\ history = <<>>

\* lines 140-152: the returned function, called with (key, ...args)
Debounced(key, args) ==
    /\ Len(history) < MaxCalls
    /\ results' = SetKey(results, key, args)
    /\ timers' = SetTimeout(ClearTimeout(timers, timeout), nextId, now + millis)
    /\ timeout' = nextId
    /\ nextId' = nextId + 1
    /\ history' = Append(history, [at |-> now, key |-> key, args |-> args,
                                   during |-> dpc])
    /\ UNCHANGED <<kind, millis, now, dpc, invocations>>

KeysOf(k) == IF k = "debounce" THEN {BoundKey} ELSE KeyPool

\* a call of the debounced function from the event loop
Call ==
    /\ dpc = "idle"
    /\ \E key \in KeysOf(kind), args \in ArgsPool : Debounced(key, args)

\* a call of the debounced function made by the callback, while it runs
CallFromCallback ==
    /\ dpc = "callback"
    /\ \E key \in KeysOf(kind), args \in ArgsPool : Debounced(key, args)

\* lines 144-149: a live timer fires, not before it is due
TimerFires ==
    /\ dpc = "idle"
    /\ \E t \in timers :
        /\ now >= t.due
        /\ timers' = timers \ {t}
        /\ IF NothingBuffered(results)
           THEN UNCHANGED <<dpc, invocations>>
           ELSE /\ dpc' = "callback"
                /\ invocations' = Append(invocations,
                       [at |-> now, ncalls |-> Len(history),
                        buffer |-> results,
                        arg |-> CallbackArgument(kind, results)])
    /\ UNCHANGED <<kind, millis, results, timeout, nextId, now, history>>

\* line 150: the callback has returned
CallbackReturns ==
    /\ dpc = "callback"
    /\ results' = ResetResults(results)
    /\ dpc' = "idle"
    /\ UNCHANGED <<kind, millis, timeout, timers, nextId, now, invocations,
                   history>>

\* the host's clock advances
Tick ==
    /\ dpc = "idle"
    /\ now < MaxTime
    /\ now' = now + 1
    /\ UNCHANGED <<kind, millis, results, timeout, timers, nextId, dpc,
                   invocations, history>>

\* ------------------------------------------------------------------------
\* Specifications
\* ------------------------------------------------------------------------
FuzzyNext == FuzzyMatchAll /\ UNCHANGED dvars

DebounceNext ==
    \/ Call /\ UNCHANGED fvars
    \/ CallFromCallback /\ UNCHANGED fvars
    \/ TimerFires /\ UNCHANGED fvars
    \/ CallbackReturns /\ UNCHANGED fvars
    \/ Tick /\ UNCHANGED fvars

InitFuzzy == FuzzyInit /\ DebounceOff

InitDebounce == FuzzyOff /\ DebounceInit

SpecFuzzy == InitFuzzy /\ [][FuzzyNext]_vars

SpecDebounce == InitDebounce /\ [][DebounceNext]_vars

Init == InitFuzzy \/ InitDebounce

Next == FuzzyNext \/ DebounceNext

Spec == Init /\ [][Next]_vars

\* ------------------------------------------------------------------------
\* Properties of fuzzyMatchAll
\* ------------------------------------------------------------------------
Done == fpc = "done"

IsBlank(s) == \A i \in 1..Len(s) : s[i] \in WhiteSpace

\* the answer of fuzzysort.single for (term, text) is a match scoring at or
\* above the cutoff
UsableAnswer(oracle, term, text) ==
    /\ <<term, text>> \in DOMAIN oracle
    /\ oracle[<<term, text>>] # Null
    /\ oracle[<<term, text>>].score >= Threshold

UsableScores ==
    { fz[p].score : p \in { q \in DOMAIN fz : UsableAnswer(fz, q[1], q[2]) } }

\* the oracle with every answer below the cutoff replaced by "no match"
WithoutGarbage(oracle) ==
    [p \in DOMAIN oracle |->
        IF UsableAnswer(oracle, p[1], p[2]) THEN oracle[p] ELSE Null]

\* C2: with splitSpace and without loose, the result is null whenever some
\* term other than the last (whole-query) term has no usable match in any
\* text, even if the whole-query term matched.
C2_EveryWordMustMatch ==
    (/\ Done
     /\ ~IsBlank(searchString)
     /\ options.splitSpace
     /\ ~options.loose
     /\ \E i \in 1..(Len(Terms(searchString, options)) - 1) :
            \A k \in 1..Len(allText) :
                ~UsableAnswer(fz, Terms(searchString, options)[i], allText[k]))
    => ret = Null

\* C3: fuzzysort.single is never invoked on a text that is empty or
\* whitespace-only.
C3_BlankTextNeverMatched ==
    Done => \A i \in 1..Len(calls) :
                Truthy(calls[i].text) /\ ~IsBlank(calls[i].text)

\* C6: a match scoring below the cutoff is treated exactly as no match (the
\* returned value is the one obtained with those answers replaced by null),
\* and a result is returned only if some consulted (term, text) pair scored
\* at or above the cutoff.
C6_NoiseFloor ==
    Done =>
        /\ ret = FuzzyMatchAllRun(WithoutGarbage(fz), searchString,
                                  allText, options).ret
        /\ (ret # Null =>
                \E i \in 1..Len(calls) :
                    UsableAnswer(fz, calls[i].term, calls[i].text))

C6_Witness ==
    /\ Done
    /\ ret # Null
    /\ \E i \in 1..Len(calls) :
          /\ <<calls[i].term, calls[i].text>> \in DOMAIN fz
          /\ fz[<<calls[i].term, calls[i].text>>] # Null
          /\ fz[<<calls[i].term, calls[i].text>>].score < Threshold

\* C7: the score of a returned result is the maximum score over the
\* (term, text) pairs that produced a usable match.
C7_ScoreIsMaximum ==
    (Done /\ ret # Null) =>
        /\ ret.score \in UsableScores
        /\ \A sc \in UsableScores : sc <= ret.score

C7_Witness ==
    /\ Done
    /\ ret # Null
    /\ Cardinality(UsableScores) >= 2
    /\ Len(FilterTexts(allText)) >= 2

\* C9: for an empty or all-whitespace query fuzzyMatchAll returns null and
\* never invokes fuzzysort.single, whatever the texts and the options.
C9_BlankQuery ==
    (Done /\ IsBlank(searchString)) => (ret = Null /\ calls = <<>>)

C9_Witness ==
    /\ Done
    /\ IsBlank(searchString)
    /\ Truthy(searchString)
    /\ options.splitSpace
    /\ \E k \in 1..Len(allText) : ~IsBlank(allText[k])
    /\ ret = Null

\* ------------------------------------------------------------------------
\* Properties of keyedDebounce and debounce
\* ------------------------------------------------------------------------

\* the buffer the calls lo..hi leave behind: each key called, mapped to the
\* arguments of its most recent call
LatestArgs(lo, hi) ==
    [k \in { history[c].key : c \in lo..hi } |->
        history[CHOOSE c \in lo..hi :
                    /\ history[c].key = k
                    /\ \A d \in lo..hi : history[d].key = k => d <= c].args]

\* the number of calls made before the flush preceding invocation j
CallsBefore(j) == IF j = 1 THEN 0 ELSE invocations[j - 1].ncalls

\* no timer is pending and no callback is running: nothing more is
\* delivered unless the debounced function is called again
Quiescent == dpc = "idle" /\ timers = {}

\* every invocation of the callback comes no sooner than the delay after the
\* most recent call, and receives exactly the keys called since the previous
\* flush, each with the arguments of its most recent call
FlushesAreTrailing ==
    \A j \in 1..Len(invocations) :
        /\ invocations[j].ncalls >= 1
        /\ invocations[j].at >= history[invocations[j].ncalls].at + millis
        /\ invocations[j].ncalls > CallsBefore(j)
        /\ invocations[j].buffer =
               LatestArgs(CallsBefore(j) + 1, invocations[j].ncalls)

\* calls less than the delay apart are not separated by a flush
ChainIsNotSplit ==
    \A c \in 1..(Len(history) - 1) :
        history[c + 1].at < history[c].at + millis =>
            \A j \in 1..Len(invocations) : invocations[j].ncalls # c

\* once nothing is pending, the last call has been followed by its flush
LastChainFlushed ==
    (Quiescent /\ history # <<>>) =>
        \E j \in 1..Len(invocations) : invocations[j].ncalls = Len(history)

\* C1: a chain of calls, each less than the delay after the previous one,
\* yields exactly one invocation of the callback, after the delay has
\* elapsed since the last call, with exactly the keys called since the
\* previous flush, each mapped to the arguments of its most recent call.
C1_ChainCollapses ==
    dpc # "off" => FlushesAreTrailing /\ ChainIsNotSplit /\ LastChainFlushed

\* C4: an instance never has more than one live timer.
C4_AtMostOneTimer == Cardinality(timers) <= 1

C4_Witness ==
    /\ Len(history) >= 2
    /\ invocations = <<>>
    /\ Cardinality(timers) = 1
    /\ \E t \in timers : t.id = timeout /\ t.id >= 2

\* a step in which a timer fires: a live timer goes away without a call
FiringStep == dpc = "idle" /\ history' = history /\ timers' # timers

\* C5: when a timer fires with a non-empty buffer the callback is invoked
\* exactly once, with the buffer's contents, and the buffer is empty once
\* the flush is over; when it fires with an empty buffer the callback is
\* not invoked.  The callback is never invoked with an empty buffer.
C5_Flush ==
    /\ [](\A j \in 1..Len(invocations) :
              invocations[j].buffer # EmptyObject)
    /\ [][/\ (FiringStep /\ ~NothingBuffered(results)) =>
                 /\ Len(invocations') = Len(invocations) + 1
                 /\ invocations'[Len(invocations')].buffer = results
                 /\ dpc' = "callback"
          /\ (FiringStep /\ NothingBuffered(results)) =>
                 /\ invocations' = invocations
                 /\ dpc' = "idle"
          /\ ~FiringStep => invocations' = invocations
          /\ (dpc = "callback" /\ dpc' = "idle") => results' = EmptyObject
         ]_vars

C5_Witness ==
    /\ dpc = "idle"
    /\ Len(invocations) >= 1
    /\ results = EmptyObject
    /\ Cardinality(DOMAIN invocations[1].buffer) = 2

\* C8: for debounce, a chain of calls each within the delay of the previous
\* one yields exactly one invocation of the external callback, which
\* receives the argument list of the last call as its arguments.
C8_DebounceCollapses ==
    kind = "debounce" /\ dpc # "off" =>
        /\ \A j \in 1..Len(invocations) :
              /\ invocations[j].ncalls >= 1
              /\ invocations[j].ncalls > CallsBefore(j)
              /\ invocations[j].at >= history[invocations[j].ncalls].at + millis
              /\ invocations[j].arg = history[invocations[j].ncalls].args
        /\ ChainIsNotSplit
        /\ LastChainFlushed

\* C10: no call is lost.  Every call(key, args) is followed by an invocation
\* of the callback whose buffer maps key to the arguments of that call or
\* of a later call with the same key; so once nothing is pending, every
\* call made so far has been delivered in this way.
C10_NoCallLost ==
    Quiescent =>
        \A c \in 1..Len(history) :
            \E j \in 1..Len(invocations) :
                /\ invocations[j].ncalls >= c
                /\ history[c].key \in DOMAIN invocations[j].buffer
                /\ \E d \in c..invocations[j].ncalls :
                      /\ history[d].key = history[c].key
                      /\ invocations[j].buffer[history[c].key] = history[d].args

====
